---- MODULE Spec2Model ----
(***************************************************************************)
(* Model of petroflow/src/utils.py : fill_nans_around(arr, period).        *)
(*                                                                         *)
(* Arrays are sequences of integers; indices of the source are 0-based and *)
(* are kept 0-based in bounds, lefts and rights (element k of the source   *)
(* is element k + 1 of the sequence).  The caller's array and the copy     *)
(* made on line 87 are two objects of a small heap, so that aliasing is    *)
(* something the model can express.                                        *)
(***************************************************************************)
EXTENDS Integers, Sequences, FiniteSets, TLC

\* ------------------------------------------------------------------ bounds
MaxLen == 6
MaxVal == 2
MaxPeriod == 2
MaxNeg == 2

\* ------------------------------------------------------------ array values
NaN == 0
Values == 1..MaxVal
Elems == {NaN} \cup Values

isnan(x) == x = NaN

Min(a, b) == IF a <= b THEN a ELSE b
Max(a, b) == IF a >= b THEN a ELSE b

\* arr[k] for a 0-based, in-range index k
At(a, k) == a[k + 1]

\* np.isnan(arr)
nan_mask(a) == [j \in 1..Len(a) |-> isnan(a[j])]

\* ------------------------------------------------- documented input arrays
\* docstring example  __1___23_4___  (values 1..4)
DocInput == <<NaN, NaN, 1, NaN, NaN, NaN, 2, 3, NaN, 4, NaN, NaN, NaN>>
\* boundary example of the specification
BoundaryInput == <<NaN, NaN, 1, NaN, NaN, NaN, 2, NaN>>

Arrays == UNION {[1..n -> Elems] : n \in 0..MaxLen} \cup {DocInput, BoundaryInput}
Periods == (0 - MaxNeg)..MaxPeriod

\* ------------------------------------------------------ lines 89 - 95
\* indices k >= 1 with nan_mask[k] # nan_mask[k-1], ascending
xor_bounds(mask) ==
  SelectSeq([j \in 1..Len(mask) |-> j - 1],
            LAMBDA k : k > 0 /\ mask[k + 1] # mask[k])

left_lim(mask) == IF mask[1] THEN <<0>> ELSE <<>>
right_lim(mask) == IF mask[Len(mask)] THEN <<Len(mask)>> ELSE <<>>

Bounds(a) ==
  LET mask == nan_mask(a)
  IN  left_lim(mask) \o xor_bounds(mask) \o right_lim(mask)

\* ------------------------------------------------------ lines 102 - 107
\* bounds[1::2] - bounds[::2]
Lengths(b) == [k \in 1..(Len(b) \div 2) |-> b[2 * k] - b[2 * k - 1]]

\* Lefts with the rounded-up half, as on the rights side
Lefts_ceil(b, p) ==
  [k \in 1..(Len(b) \div 2) |->
     <<b[2 * k] - Min(p, (Lengths(b)[k] \div 2) + (Lengths(b)[k] % 2)), b[2 * k]>>]

\* Lefts without the check of period against the half length
Lefts_nomin(b, p) ==
  [k \in 1..(Len(b) \div 2) |-> <<b[2 * k] - p, b[2 * k]>>]

\* Lefts with the offset added instead of subtracted
Lefts_plus(b, p) ==
  [k \in 1..(Len(b) \div 2) |->
     <<b[2 * k] + Min(p, Lengths(b)[k] \div 2), b[2 * k]>>]

\* lefts[::2] = lefts[1::2] - np.minimum(period, lengths // 2), zipped
Lefts(b, p) ==
  [k \in 1..(Len(b) \div 2) |->
     <<b[2 * k] - Min(p, Lengths(b)[k] \div 2), b[2 * k]>>]

\* Rights with the rounded-down half, as on the lefts side
Rights_floor(b, p) ==
  [k \in 1..(Len(b) \div 2) |->
     <<b[2 * k - 1], b[2 * k - 1] + Min(p, Lengths(b)[k] \div 2)>>]

\* Rights without the check of period against the half length
Rights_nomin(b, p) ==
  [k \in 1..(Len(b) \div 2) |-> <<b[2 * k - 1], b[2 * k - 1] + p>>]

\* rights[1::2] = rights[::2] + np.minimum(period, lengths // 2 + lengths % 2)
Rights(b, p) ==
  [k \in 1..(Len(b) \div 2) |->
     <<b[2 * k - 1],
       b[2 * k - 1] + Min(p, (Lengths(b)[k] \div 2) + (Lengths(b)[k] % 2))>>]

\* ------------------------------------------------------ slices
\* slice.indices : a negative index counts from the end, then is clipped
slice_index(k, n) == IF k < 0 THEN Max(k + n, 0) ELSE Min(k, n)

\* slice assignment that also writes position stop
slice_assign_inclusive(a, start, stop, v) ==
  [j \in 1..Len(a) |->
     IF slice_index(start, Len(a)) <= j - 1 /\ j - 1 <= slice_index(stop, Len(a))
     THEN v ELSE a[j]]

\* arr[start:stop] = v
slice_assign(a, start, stop, v) ==
  [j \in 1..Len(a) |->
     IF slice_index(start, Len(a)) <= j - 1 /\ j - 1 < slice_index(stop, Len(a))
     THEN v ELSE a[j]]

\* loop body whose second fill reads arr[right_slice.start]
loop_body_start(a, l, r) ==
  LET a1 == IF l[2] # Len(a) THEN slice_assign(a, l[1], l[2], At(a, l[2])) ELSE a
  IN  IF r[1] # 0 THEN slice_assign(a1, r[1], r[2], At(a1, r[1])) ELSE a1

\* ------------------------------------------------------ lines 110 - 115
loop_body(a, l, r) ==
  LET a1 == IF l[2] # Len(a) THEN slice_assign(a, l[1], l[2], At(a, l[2])) ELSE a
  IN  IF r[1] # 0 THEN slice_assign(a1, r[1], r[2], At(a1, r[1] - 1)) ELSE a1

\* lines 109 - 115, iterations k .. lengths.size
RECURSIVE loop_from(_, _, _, _)
loop_from(a, ls, rs, k) ==
  IF k > Len(ls) THEN a
  ELSE loop_from(loop_body(a, ls[k], rs[k]), ls, rs, k + 1)

\* the value returned for a non-empty array (lines 87 - 116)
fill_nans_around(a, p) ==
  loop_from(a, Lefts(Bounds(a), p), Rights(Bounds(a), p), 1)

\* no copy : the function works on the caller's object
copy_inplace(ref) == ref

\* arr.copy() : the object the copy lives in
copy(ref) == "copy"

\* ------------------------------------------------------------------ state
VARIABLES heap, arr, period, pc, i, lefts, rights, lengths, ret, err

vars == <<heap, arr, period, pc, i, lefts, rights, lengths, ret, err>>

Init ==
  /\ \E a \in Arrays : heap = [caller |-> a, copy |-> <<>>]
  /\ period \in Periods
  /\ arr = "caller"
  /\ pc = "call"
  /\ i = 0
  /\ lefts = <<>>
  /\ rights = <<>>
  /\ lengths = <<>>
  /\ ret = "none"
  /\ err = "none"

\* lines 87 - 107 on a non-empty array
Enter ==
  /\ pc = "call"
  /\ Len(heap[arr]) > 0
  /\ arr' = copy(arr)
  /\ heap' = [heap EXCEPT ![copy(arr)] = heap[arr]]
  /\ lengths' = Lengths(Bounds(heap[arr]))
  /\ lefts' = Lefts(Bounds(heap[arr]), period)
  /\ rights' = Rights(Bounds(heap[arr]), period)
  /\ i' = 0
  /\ pc' = "loop"
  /\ UNCHANGED <<period, ret, err>>

\* lines 87 - 93 on an empty array : nan_mask[0] is out of bounds
EnterEmpty ==
  /\ pc = "call"
  /\ Len(heap[arr]) = 0
  /\ arr' = copy(arr)
  /\ heap' = [heap EXCEPT ![copy(arr)] = heap[arr]]
  /\ err' = "IndexError"
  /\ pc' = "raised"
  /\ UNCHANGED <<period, i, lefts, rights, lengths, ret>>

\* one iteration of the loop, lines 109 - 115
FillStep ==
  /\ pc = "loop"
  /\ i < Len(lengths)
  /\ heap' = [heap EXCEPT ![arr] = loop_body(heap[arr], lefts[i + 1], rights[i + 1])]
  /\ i' = i + 1
  /\ UNCHANGED <<arr, period, pc, lefts, rights, lengths, ret, err>>

\* line 116
Return ==
  /\ pc = "loop"
  /\ i = Len(lengths)
  /\ ret' = arr
  /\ pc' = "returned"
  /\ UNCHANGED <<heap, arr, period, i, lefts, rights, lengths, err>>

Next == Enter \/ EnterEmpty \/ FillStep \/ Return

Spec == Init /\ [][Next]_vars

\* ------------------------------------------------------------ vocabulary
Input == heap["caller"]
Output == heap[ret]
Returned == pc = "returned"

\* [s, e) is a maximal block of missing values of a (0-based, half-open)
IsRun(a, s, e) ==
  /\ 0 <= s /\ s < e /\ e <= Len(a)
  /\ \A k \in s..(e - 1) : isnan(At(a, k))
  /\ (s = 0 \/ ~isnan(At(a, s - 1)))
  /\ (e = Len(a) \/ ~isnan(At(a, e)))

Runs(a) == {r \in (0..Len(a)) \X (0..Len(a)) : IsRun(a, r[1], r[2])}
Interior(a) == {r \in Runs(a) : r[1] > 0 /\ r[2] < Len(a)}
Leading(a) == {r \in Runs(a) : r[1] = 0 /\ r[2] < Len(a)}
Trailing(a) == {r \in Runs(a) : r[1] > 0 /\ r[2] = Len(a)}

\* the run [s, e) of in holds, in out : lc copies of the left neighbour,
\* then missing values, then rc copies of the right neighbour
FilledAs(in, out, s, e, lc, rc) ==
  \A k \in s..(e - 1) :
    At(out, k) = IF k < s + lc THEN At(in, s - 1)
                 ELSE IF k >= e - rc THEN At(in, e)
                 ELSE NaN

\* ------------------------------------------------------------------- C1
\* C1 as stated: an interior run of length L gets its first min(period, L div 2)
\* positions from index s - 1 and its last min(period, L - L div 2) positions
\* from index e, the rest stays missing.
C1_AsStated ==
  (Returned /\ period >= 0) =>
    \A r \in Interior(Input) :
      LET L == r[2] - r[1]
      IN  FilledAs(Input, Output, r[1], r[2],
                   Min(period, L \div 2), Min(period, L - (L \div 2)))

\* C1 amended: an interior run of length L gets its first
\* min(period, L - L div 2) positions from index s - 1 and its last
\* min(period, L div 2) positions from index e, the rest stays missing; an
\* odd run gives its extra position to the side filled from the left neighbour.
C1_InteriorSplit ==
  (Returned /\ period >= 0) =>
    \A r \in Interior(Input) :
      LET L == r[2] - r[1]
      IN  FilledAs(Input, Output, r[1], r[2],
                   Min(period, L - (L \div 2)), Min(period, L \div 2))

C1_Witness ==
  /\ Returned /\ period >= 1
  /\ \E r \in Interior(Input) :
       LET L == r[2] - r[1]
       IN  /\ L % 2 = 1 /\ L \div 2 < period
           /\ At(Input, r[1] - 1) # At(Input, r[2])
           /\ At(Output, r[1] + (L \div 2)) = At(Input, r[1] - 1)

\* ------------------------------------------------------------------- C2
DocOutput == <<NaN, 1, 1, 1, NaN, 2, 2, 3, 3, 4, 4, NaN, NaN>>

\* C2: with period = 1 the docstring input __1___23_4___ returns _111_223344__
C2_DocExample ==
  (Returned /\ Input = DocInput /\ period = 1) => Output = DocOutput

C2_Witness == Returned /\ Input = DocInput /\ period = 1 /\ At(Output, 8) = 3

\* ------------------------------------------------------------------- C3
BoundaryAsStated == <<NaN, 1, 1, 1, NaN, 2, 2, NaN>>
BoundaryOutput == <<NaN, 1, 1, 1, NaN, 2, 2, 2>>

\* a run at the start gets only rc copies of its right neighbour, a run at
\* the end only lc copies of its left neighbour
EdgesFilledAs(in, out, lc(_), rc(_)) ==
  /\ \A r \in Leading(in) :
       \A k \in 0..(r[2] - 1) :
         At(out, k) = IF k >= r[2] - rc(r[2] - r[1]) THEN At(in, r[2]) ELSE NaN
  /\ \A r \in Trailing(in) :
       \A k \in r[1]..(r[2] - 1) :
         At(out, k) = IF k < r[1] + lc(r[2] - r[1]) THEN At(in, r[1] - 1) ELSE NaN

\* C3 as stated: a leading run gets its last min(period, L - L div 2)
\* positions from index e, a trailing run its first min(period, L div 2)
\* positions from index s - 1, and the boundary example returns
\* [NaN, 1, 1, 1, NaN, 2, 2, NaN].
C3_AsStated ==
  (Returned /\ period >= 0) =>
    /\ EdgesFilledAs(Input, Output,
                     LAMBDA L : Min(period, L \div 2),
                     LAMBDA L : Min(period, L - (L \div 2)))
    /\ (Input = BoundaryInput /\ period = 1) => Output = BoundaryAsStated

\* C3 amended: a leading run gets exactly its last min(period, L div 2)
\* positions from index e, a trailing run exactly its first
\* min(period, L - L div 2) positions from index s - 1, and the boundary
\* example returns [NaN, 1, 1, 1, NaN, 2, 2, 2].
C3_EdgeRuns ==
  (Returned /\ period >= 0) =>
    /\ EdgesFilledAs(Input, Output,
                     LAMBDA L : Min(period, L - (L \div 2)),
                     LAMBDA L : Min(period, L \div 2))
    /\ (Input = BoundaryInput /\ period = 1) => Output = BoundaryOutput

C3_Witness ==
  /\ Returned /\ Input = BoundaryInput /\ period = 1
  /\ At(Output, 7) = 2 /\ isnan(At(Output, 0))

\* ------------------------------------------------------------------- C4
\* C4: for period >= 0 the output has the length of the input and every
\* valid input element is unchanged in the output; an input without missing
\* values is returned unchanged.
C4_ValidPreserved ==
  (Returned /\ period >= 0) =>
    /\ Len(Output) = Len(Input)
    /\ \A k \in 0..(Len(Input) - 1) :
         ~isnan(At(Input, k)) => At(Output, k) = At(Input, k)
    /\ (Runs(Input) = {} => Output = Input)

C4_Witness ==
  /\ Returned /\ period >= 1
  /\ Output # Input
  /\ \E k \in 0..(Len(Input) - 1) : ~isnan(At(Input, k))
  /\ \E k \in 0..(Len(Input) - 1) : isnan(At(Output, k))

\* ------------------------------------------------------------------- C5
\* C5: a call with a negative period returns no sequence.
C5_NegativeRejected == period < 0 => ~Returned

\* ------------------------------------------------------------------- C6
\* C6: a call on an empty sequence with period >= 0 raises no error and
\* returns the empty sequence.
C6_EmptyReturned ==
  (Len(Input) = 0 /\ period >= 0) =>
    /\ pc # "raised" /\ err = "none"
    /\ Returned => Output = <<>>

\* ------------------------------------------------------------------- C7
NoLongRun(a, p) == \A r \in Runs(a) : r[2] - r[1] <= 2 * p

\* C7 as stated: when no missing run of the input is longer than 2 * period,
\* filling the output again with the same period changes nothing.
C7_AsStated ==
  (Returned /\ period >= 0 /\ NoLongRun(Input, period)) =>
    fill_nans_around(Output, period) = Output

\* the runs that touch one end only are short: at most 2 at the start, at
\* most 1 at the end
ShortEdgeRuns(a) ==
  /\ \A r \in Leading(a) : r[2] - r[1] <= 2
  /\ \A r \in Trailing(a) : r[2] - r[1] <= 1

\* C7 amended: when no missing run of the input is longer than 2 * period,
\* a run touching only the start is at most 2 long and a run touching only
\* the end is at most 1 long, filling the output again with the same period
\* changes nothing.
C7_Idempotent ==
  (Returned /\ period >= 0 /\ NoLongRun(Input, period)
     /\ ShortEdgeRuns(Input)) =>
    fill_nans_around(Output, period) = Output

C7_Witness ==
  /\ Returned /\ period >= 1 /\ NoLongRun(Input, period)
  /\ ShortEdgeRuns(Input)
  /\ Interior(Input) # {} /\ Leading(Input) # {} /\ Trailing(Input) # {}
  /\ Output # Input
  /\ fill_nans_around(Output, period) = Output

\* ------------------------------------------------------------------- C8
StillMissing(out, s, e) == {k \in s..(e - 1) : isnan(At(out, k))}

\* C8: an interior run of length 2 * period (period >= 1) is completely
\* filled; an interior run of length 2 * period + 1 (period >= 0) keeps
\* exactly one missing position, index s + period.
C8_ResidualGap ==
  (Returned /\ period >= 0) =>
    \A r \in Interior(Input) :
      /\ (period >= 1 /\ r[2] - r[1] = 2 * period) =>
           StillMissing(Output, r[1], r[2]) = {}
      /\ (r[2] - r[1] = 2 * period + 1) =>
           StillMissing(Output, r[1], r[2]) = {r[1] + period}

C8_Witness ==
  /\ Returned /\ period >= 1
  /\ \E r \in Interior(Input) :
       /\ r[2] - r[1] = 2 * period + 1
       /\ At(Input, r[1] - 1) # At(Input, r[2])
       /\ StillMissing(Output, r[1], r[2]) = {r[1] + period}

\* ------------------------------------------------------------------- C9
\* C9: for period >= 0 a position missing in the input is, in the output,
\* still missing or a copy of the valid input element next to its run, at
\* most period positions away from it; with period = 0, or when the whole
\* input is one missing run, the output equals the input.
C9_FilledFromNeighbour ==
  (Returned /\ period >= 0) =>
    /\ \A r \in Runs(Input) :
         \A k \in r[1]..(r[2] - 1) :
           \/ isnan(At(Output, k))
           \/ /\ r[1] > 0
              /\ At(Output, k) = At(Input, r[1] - 1)
              /\ k - (r[1] - 1) <= period
           \/ /\ r[2] < Len(Input)
              /\ At(Output, k) = At(Input, r[2])
              /\ r[2] - k <= period
    /\ (period = 0 => Output = Input)
    /\ (<<0, Len(Input)>> \in Runs(Input) => Output = Input)

C9_Witness ==
  /\ Returned /\ period >= 1
  /\ \E r \in Interior(Input) :
       /\ At(Input, r[1] - 1) # At(Input, r[2])
       /\ At(Output, r[1]) = At(Input, r[1] - 1)
       /\ At(Output, r[2] - 1) = At(Input, r[2])
       /\ \E k \in r[1]..(r[2] - 1) : isnan(At(Output, k))

\* ------------------------------------------------------------------ C10
\* C10: no step of the call changes the caller's array, and the array that
\* is returned is not the caller's.
C10_InputUntouched ==
  [][/\ heap'["caller"] = heap["caller"]
     /\ (pc' = "returned" => ret' # "caller")]_vars

C10_Witness == Returned /\ ret = "copy" /\ heap["copy"] # heap["caller"]

====
